---- MODULE Spec2Model ----
(***************************************************************************)
(* Model of app.py, the portfolio analyser: the metric library, the        *)
(* portfolio aggregator, the optimizer wrapper around the SLSQP solver and *)
(* the analysis pass the script runs for one request.                      *)
(*                                                                         *)
(* Numbers.  A float is a record [k, n, d]: k = "fin" is the exact         *)
(* rational n/d (d > 0, lowest terms), k = "nan" is NaN, k = "inf" is      *)
(* +inf (n = 1) or -inf (n = -1).  Arithmetic is exact: rounding of the    *)
(* binary floating point is not modelled.  A value that passed through a   *)
(* square root is a record [k, s, n, d] standing for s * sqrt(n/d).        *)
(***************************************************************************)
EXTENDS Integers, Sequences, FiniteSets, TLC

VARIABLES
    pc,                 \* position of the script, or the library function last applied
    serie,              \* library input: a return series
    ventana,            \* library input: a window length
    precios,            \* library input: a price DataFrame
    res,                \* result of the library function last applied
    simbolos,           \* line 208: the caller's symbols, in the caller's order
    pesos,              \* line 209: the caller's weights
    benchmark,          \* line 220
    start_date,         \* line 234, as a day number (day 0 is 2010-01-01)
    sidebar_error,      \* line 237: the error shown in the sidebar
    raised,             \* the exception that ended the script, or None
    calls,              \* the functions the script has called so far
    df_stocks,          \* line 241
    returns,            \* line 242: the return DataFrame
    portfolio_returns,  \* line 245
    pesos_volatilidad,  \* line 507
    pesos_sharpe,       \* line 507
    pesos_target,       \* line 508
    success,            \* the solver's success flags, which the script never reads
    rendimientos_ventanas,  \* line 442
    var_ventanas,           \* line 443
    cvar_ventanas           \* line 444

libVars == <<serie, ventana, precios, res>>

inputVars == <<simbolos, pesos, benchmark, start_date>>

optVars == <<pesos_volatilidad, pesos_sharpe, pesos_target, success>>

tabVars == <<rendimientos_ventanas, var_ventanas, cvar_ventanas>>

vars == <<pc, libVars, inputVars, sidebar_error, raised, calls, df_stocks, returns,
          portfolio_returns, optVars, tabVars>>

None == "None"

-----------------------------------------------------------------------------
(* Exact rational arithmetic *)

Abs(x) == IF x < 0 THEN -x ELSE x

Sign(x) == IF x < 0 THEN -1 ELSE IF x = 0 THEN 0 ELSE 1

RECURSIVE GCD(_, _)
GCD(a, b) == IF b = 0 THEN a ELSE GCD(b, a % b)

Fin(n, d) ==
    LET g == GCD(Abs(n), Abs(d))
        s == IF d < 0 THEN -1 ELSE 1
    IN [k |-> "fin", n |-> s * (n \div g), d |-> s * (d \div g)]

NaN == [k |-> "nan", n |-> 0, d |-> 1]

Inf(s) == [k |-> "inf", n |-> s, d |-> 1]

IsNaN(x) == x.k = "nan"

IsInf(x) == x.k = "inf"

IsFin(x) == x.k = "fin"

Int2F(i) == Fin(i, 1)

FNeg(x) == IF IsNaN(x) THEN NaN ELSE [x EXCEPT !.n = -x.n]

FAdd(x, y) ==
    IF IsNaN(x) \/ IsNaN(y) THEN NaN
    ELSE IF IsInf(x) /\ IsInf(y) THEN (IF x.n = y.n THEN x ELSE NaN)
    ELSE IF IsInf(x) THEN x
    ELSE IF IsInf(y) THEN y
    ELSE LET g == GCD(x.d, y.d)
         IN Fin(x.n * (y.d \div g) + y.n * (x.d \div g), (x.d \div g) * y.d)

FSub(x, y) == FAdd(x, FNeg(y))

FMul(x, y) ==
    IF IsNaN(x) \/ IsNaN(y) THEN NaN
    ELSE IF IsInf(x) \/ IsInf(y)
         THEN (IF x.n = 0 \/ y.n = 0 THEN NaN ELSE Inf(Sign(x.n) * Sign(y.n)))
    ELSE LET g1 == GCD(Abs(x.n), y.d)
             g2 == GCD(Abs(y.n), x.d)
         IN Fin((x.n \div g1) * (y.n \div g2), (x.d \div g2) * (y.d \div g1))

FDiv(x, y) ==
    IF IsNaN(x) \/ IsNaN(y) THEN NaN
    ELSE IF IsInf(x) THEN (IF IsInf(y) THEN NaN
                           ELSE Inf(x.n * (IF y.n < 0 THEN -1 ELSE 1)))
    ELSE IF IsInf(y) THEN Fin(0, 1)
    ELSE IF y.n = 0 THEN (IF x.n = 0 THEN NaN ELSE Inf(Sign(x.n)))
    ELSE FMul(x, Fin(y.d, y.n))

\* comparisons: every comparison with NaN is False
FLt(x, y) ==
    IF IsNaN(x) \/ IsNaN(y) THEN FALSE
    ELSE IF IsInf(x) THEN x.n < 0 /\ ~(IsInf(y) /\ y.n < 0)
    ELSE IF IsInf(y) THEN y.n > 0
    ELSE LET g == GCD(x.d, y.d)
         IN x.n * (y.d \div g) < y.n * (x.d \div g)

FLe(x, y) == ~IsNaN(x) /\ ~IsNaN(y) /\ ~FLt(y, x)

FGe(x, y) == FLe(y, x)

FAbs(x) == IF IsFin(x) /\ x.n < 0 THEN FNeg(x) ELSE IF IsInf(x) THEN Inf(1) ELSE x

-----------------------------------------------------------------------------
(* Values s * a * sqrt(p/q): sign s, and exact rationals a >= 0, p >= 0, q > 0 *)

One == Fin(1, 1)

Zero == Fin(0, 1)

RNaN == [k |-> "nan", s |-> 0, a |-> Zero, p |-> Zero, q |-> One]

RInf(s) == [k |-> "inf", s |-> s, a |-> Zero, p |-> Zero, q |-> One]

RZero == [k |-> "fin", s |-> 0, a |-> Zero, p |-> Zero, q |-> One]

RFin(s, a, p, q) == [k |-> "fin", s |-> s, a |-> a, p |-> p, q |-> q]

\* np.sqrt: NaN for NaN and for a negative argument
Sqrt(x) ==
    IF IsNaN(x) THEN RNaN
    ELSE IF IsInf(x) THEN (IF x.n > 0 THEN RInf(1) ELSE RNaN)
    ELSE IF x.n < 0 THEN RNaN
    ELSE IF x.n = 0 THEN RZero
    ELSE RFin(1, One, x, One)

\* a float as a value of this form
F2R(x) ==
    IF IsNaN(x) THEN RNaN
    ELSE IF IsInf(x) THEN RInf(x.n)
    ELSE IF x.n = 0 THEN RZero
    ELSE RFin(Sign(x.n), FAbs(x), One, One)

RMul(x, y) ==
    IF x.k = "nan" \/ y.k = "nan" THEN RNaN
    ELSE IF x.k = "inf" \/ y.k = "inf"
         THEN (IF x.s = 0 \/ y.s = 0 THEN RNaN ELSE RInf(x.s * y.s))
    ELSE IF x.s = 0 \/ y.s = 0 THEN RZero
    ELSE RFin(x.s * y.s, FMul(x.a, y.a), FMul(x.p, y.p), FMul(x.q, y.q))

\* numpy float64 division: x/0 is +-inf (nan for 0/0) with a warning, no exception
RDiv(x, y) ==
    IF x.k = "nan" \/ y.k = "nan" THEN RNaN
    ELSE IF x.k = "inf" THEN (IF y.k = "inf" THEN RNaN
                              ELSE RInf(x.s * (IF y.s < 0 THEN -1 ELSE 1)))
    ELSE IF y.k = "inf" THEN RZero
    ELSE IF y.s = 0 THEN (IF x.s = 0 THEN RNaN ELSE RInf(x.s))
    ELSE IF x.s = 0 THEN RZero
    ELSE RFin(x.s * y.s, FDiv(x.a, y.a), FMul(x.p, y.q), FMul(x.q, y.p))

RNeg(x) == [x EXCEPT !.s = -x.s]

\* downside_deviation != 0 (NaN != 0 is True)
RNonZero(x) == x.k # "fin" \/ x.s # 0

Periodos == 252

Sqrt252 == Sqrt(Int2F(Periodos))

-----------------------------------------------------------------------------
(* pandas Series helpers *)

RECURSIVE Sum(_)
Sum(s) == IF s = <<>> THEN Fin(0, 1) ELSE FAdd(Head(s), Sum(Tail(s)))

RECURSIVE Prod(_)
Prod(s) == IF s = <<>> THEN Fin(1, 1) ELSE FMul(Head(s), Prod(Tail(s)))

AddScalar(s, c) == [i \in 1..Len(s) |-> FAdd(s[i], c)]

\* Series.mean(): NaN for an empty series
Mean(s) == IF s = <<>> THEN NaN ELSE FDiv(Sum(s), Int2F(Len(s)))

\* Series.std(): sample standard deviation (ddof = 1), NaN below two observations
Std(s) ==
    IF Len(s) < 2 THEN RNaN
    ELSE LET m == Mean(s)
             sq == [i \in 1..Len(s) |-> FMul(FSub(s[i], m), FSub(s[i], m))]
         IN Sqrt(FDiv(Sum(sq), Int2F(Len(s) - 1)))

\* the slice taken from the front of the series
ILocHead(s, start) ==
    LET n == Len(s)
        e == IF -start > n THEN n ELSE -start
    IN [i \in 1..e |-> s[i]]

\* s.iloc[start:] with Python's slice rules (negative start counts from the end)
ILocFrom(s, start) ==
    LET n == Len(s)
        b == IF start < 0 THEN (IF start + n < 0 THEN 0 ELSE start + n)
             ELSE (IF start > n THEN n ELSE start)
    IN [i \in 1..(n - b) |-> s[b + i]]

RECURSIVE Insert(_, _)
Insert(x, s) ==
    IF s = <<>> THEN <<x>>
    ELSE IF FLe(x, Head(s)) THEN <<x>> \o s
    ELSE <<Head(s)>> \o Insert(x, Tail(s))

RECURSIVE SortValues(_)
SortValues(s) == IF s = <<>> THEN <<>> ELSE Insert(Head(s), SortValues(Tail(s)))

\* Series.quantile(q), linear interpolation between the two nearest order statistics
Quantile(s, q) ==
    IF s = <<>> THEN NaN
    ELSE LET a == SortValues(s)
             idx == FMul(q, Int2F(Len(s) - 1))
             lo == idx.n \div idx.d
             hi == IF idx.n % idx.d = 0 THEN lo ELSE lo + 1
             frac == FSub(idx, Int2F(lo))
         IN FAdd(a[lo + 1], FMul(FSub(a[hi + 1], a[lo + 1]), frac))

-----------------------------------------------------------------------------
(* The metric library, lines 10-135 *)

RiskFree == Fin(1, 50)

Confidence == Fin(19, 20)

calcular_rendimiento_ventana(r, window) ==
    IF Len(r) < window THEN NaN
    ELSE FSub(Prod(AddScalar(ILocFrom(r, -window), Int2F(1))), Int2F(1))

calcular_sharpe_ratio(r, risk_free_rate) ==
    LET excess_returns == AddScalar(r, FNeg(FDiv(risk_free_rate, Int2F(Periodos))))
    IN RDiv(RMul(Sqrt252, F2R(Mean(excess_returns))), Std(excess_returns))

calcular_sortino_ratio(r, risk_free_rate, target_return) ==
    LET excess_returns == AddScalar(r, FNeg(FDiv(risk_free_rate, Int2F(Periodos))))
        IsDown(x) == FLt(x, target_return)
        Square(x) == FMul(x, x)
        downside_returns == SelectSeq(excess_returns, IsDown)
        downside_deviation ==
            Sqrt(Mean([i \in 1..Len(downside_returns) |-> Square(downside_returns[i])]))
    IN IF RNonZero(downside_deviation)
       THEN RDiv(RMul(Sqrt252, F2R(Mean(excess_returns))), downside_deviation)
       ELSE RNaN

\* the tail taken strictly below the quantile
var_cvar_strict(r, confidence) ==
    LET VaR == Quantile(r, FSub(Int2F(1), confidence))
        InTail(x) == FLt(x, VaR)
        CVaR == Mean(SelectSeq(r, InTail))
    IN <<VaR, CVaR>>

calcular_var_cvar(r, confidence) ==
    LET VaR == Quantile(r, FSub(Int2F(1), confidence))
        InTail(x) == FLe(x, VaR)
        CVaR == Mean(SelectSeq(r, InTail))
    IN <<VaR, CVaR>>

calcular_var_cvar_ventana(r, window) ==
    IF Len(r) < window THEN <<NaN, NaN>>
    ELSE calcular_var_cvar(ILocFrom(r, -window), Confidence)

-----------------------------------------------------------------------------
(* DataFrames: [cols |-> column labels, data |-> rows, each a value per column] *)

ColIndex(df, name) == CHOOSE i \in 1..Len(df.cols) : df.cols[i] = name

HasCol(df, name) == \E i \in 1..Len(df.cols) : df.cols[i] = name

\* the leading columns of the frame, whatever their labels
SelectLeading(df, names) ==
    [cols |-> names,
     data |-> [t \in 1..Len(df.data) |-> [j \in 1..Len(names) |-> df.data[t][j]]]]

\* df[names]: the named columns, in the order of names
SelectCols(df, names) ==
    [cols |-> names,
     data |-> [t \in 1..Len(df.data) |->
                 [j \in 1..Len(names) |-> df.data[t][ColIndex(df, names[j])]]]]

Column(df, name) == [t \in 1..Len(df.data) |-> df.data[t][ColIndex(df, name)]]

\* (returns * weights).sum(axis=1): the list is broadcast over the columns by position
calcular_rendimientos_portafolio(rets, weights) ==
    [t \in 1..Len(rets.data) |->
        Sum([j \in 1..Len(rets.cols) |-> FMul(rets.data[t][j], weights[j])])]

-----------------------------------------------------------------------------
(* calcular_metricas, lines 90-94 *)

\* the change taken relative to the later price
PctChangeLater(df) ==
    [cols |-> df.cols,
     data |-> [t \in 1..Len(df.data) |->
                 [j \in 1..Len(df.cols) |->
                     IF t = 1 THEN NaN
                     ELSE FDiv(FSub(df.data[t][j], df.data[t - 1][j]), df.data[t][j])]]]

\* DataFrame.pct_change(): the first row has no predecessor
PctChange(df) ==
    [cols |-> df.cols,
     data |-> [t \in 1..Len(df.data) |->
                 [j \in 1..Len(df.cols) |->
                     IF t = 1 THEN NaN
                     ELSE FDiv(FSub(df.data[t][j], df.data[t - 1][j]), df.data[t - 1][j])]]]

\* DataFrame.dropna(): drops every row that holds a NaN
DropNa(df) ==
    LET Complete(row) == \A j \in 1..Len(row) : ~IsNaN(row[j])
    IN [cols |-> df.cols, data |-> SelectSeq(df.data, Complete)]

\* (1 + returns).cumprod() - 1
CumProdMinus1(df) ==
    [cols |-> df.cols,
     data |-> [t \in 1..Len(df.data) |->
                 [j \in 1..Len(df.cols) |->
                     FSub(Prod([u \in 1..t |-> FAdd(One, df.data[u][j])]), One)]]]

\* df / df.iloc[0] * 100
Normalize(df) ==
    [cols |-> df.cols,
     data |-> [t \in 1..Len(df.data) |->
                 [j \in 1..Len(df.cols) |->
                     FMul(FDiv(df.data[t][j], df.data[1][j]), Int2F(100))]]]

\* df.iloc[0] raises IndexError on a frame without rows
calcular_metricas(df) ==
    IF Len(df.data) = 0
    THEN [raised |-> "IndexError", returns |-> None, cumulative_returns |-> None,
          normalized_prices |-> None]
    ELSE LET rets == DropNa(PctChange(df))
         IN [raised |-> None, returns |-> rets,
             cumulative_returns |-> CumProdMinus1(rets),
             normalized_prices |-> Normalize(df)]

-----------------------------------------------------------------------------
(* The optimizer, lines 10-83 *)

\* The daily mean m with (1 + m)^252 - 1 = target, to six decimals.  (1 + m)^252 - 1
\* increases with m, so calcular_rendimiento_anualizado(r) >= target exactly when
\* mean(r) >= m.
NoTarget == [k |-> "none", n |-> 0, d |-> 1]

DailyFloor(target) ==
    CASE target = Fin(1, 10) -> Fin(189, 500000)
      [] target = Fin(9, 100) -> Fin(171, 500000)

\* calcular_rendimiento_anualizado(r) >= target (False when the mean is NaN)
RendimientoAnualizadoGe(r, target) == FGe(Mean(r), DailyFloor(target))

calcular_volatilidad_anualizada(r) == RMul(Std(r), Sqrt252)

calcular_sharpe_ratio_anualizado(r, risk_free_rate) ==
    LET excess_returns == FSub(Mean(r), FDiv(risk_free_rate, Int2F(Periodos)))
    IN RMul(RDiv(F2R(excess_returns), Std(r)), Sqrt252)

minimizar_volatilidad(w, rets) ==
    calcular_volatilidad_anualizada(calcular_rendimientos_portafolio(rets, w))

maximizar_sharpe(w, rets, risk_free_rate) ==
    RNeg(calcular_sharpe_ratio_anualizado(calcular_rendimientos_portafolio(rets, w),
                                          risk_free_rate))

volatilidad_con_objetivo(w, rets, target_return) ==
    LET port == calcular_rendimientos_portafolio(rets, w)
    IN IF RendimientoAnualizadoGe(port, target_return)
       THEN calcular_volatilidad_anualizada(port)
       ELSE RInf(1)

OptGrid == 2

\* pesos_iniciales = np.ones(n) / n
PesosIniciales(n) == [i \in 1..n |-> Fin(1, n)]

NaNVec(n) == [i \in 1..n |-> NaN]

\* limites and the equality constraint: 0 <= w[i] <= 1 and sum(w) - 1 = 0
EnSimplex(w) ==
    /\ \A i \in 1..Len(w) : FLe(Zero, w[i]) /\ FLe(w[i], One)
    /\ Sum(w) = One

Candidatos(n) ==
    {w \in [1..n -> {Fin(k, OptGrid) : k \in 0..OptGrid}] : EnSimplex(w)}
        \cup {PesosIniciales(n)}

\* the objective the solver is given, by name, at the point w
Objetivo(fun, w, rets, risk_free_rate) ==
    IF fun = "minimizar_volatilidad" THEN minimizar_volatilidad(w, rets)
    ELSE maximizar_sharpe(w, rets, risk_free_rate)

\* restricciones: the equality constraint is part of EnSimplex; the inequality
\* constraint of line 72 is present only with a target return
Restricciones(w, rets, target_return) ==
    target_return # NoTarget =>
        RendimientoAnualizadoGe(calcular_rendimientos_portafolio(rets, w), target_return)

\* minimize(fun, pesos_iniciales, args, method="SLSQP", bounds=limites,
\* constraints=restricciones): the set of OptimizeResults [x, success] the solver may
\* end with.  The solver starts at x0, which meets the bounds and the equality
\* constraint, and both are linear, so its iterates keep them while the objective
\* is finite.
\*  - objective not finite at x0 (NaN or infinite): the finite-difference gradient
\*    is NaN; the solver ends unsuccessfully, at x0 or with a NaN vector;
\*  - no point meets the inequality constraint: it ends unsuccessfully at a point
\*    of the simplex;
\*  - otherwise it ends successfully at a point meeting every constraint (any such
\*    point: which local minimum it finds is left open).
Minimize(fun, x0, rets, risk_free_rate, target_return) ==
    LET n == Len(x0)
        feasible == {w \in Candidatos(n) : Restricciones(w, rets, target_return)}
    IN IF Objetivo(fun, x0, rets, risk_free_rate).k # "fin"
       THEN {[x |-> x0, success |-> FALSE], [x |-> NaNVec(n), success |-> FALSE]}
       ELSE IF feasible = {}
       THEN {[x |-> w, success |-> FALSE] : w \in Candidatos(n)}
       ELSE {[x |-> w, success |-> TRUE] : w \in feasible}

\* the OptimizeResults of the minimize calls of one optimizar_portafolio call
SolverRuns(rets, target_return, risk_free_rate) ==
    LET n == Len(rets.cols)
        pesos_iniciales == PesosIniciales(n)
    IN IF target_return = NoTarget
       THEN {<<rv, rs>> :
               rv \in Minimize("minimizar_volatilidad", pesos_iniciales, rets,
                               risk_free_rate, NoTarget),
               rs \in Minimize("maximizar_sharpe", pesos_iniciales, rets,
                               risk_free_rate, NoTarget)}
       ELSE {<<rt>> :
               rt \in Minimize("minimizar_volatilidad", pesos_iniciales, rets,
                               risk_free_rate, target_return)}

\* what optimizar_portafolio returns: the x of every result, and nothing else
optimizar_portafolio(runs) == [i \in 1..Len(runs) |-> runs[i].x]

TargetReturn == Fin(1, 10)

-----------------------------------------------------------------------------
(* Bounds and input sets *)

MaxLen == 3

MaxVentana == 4

MaxPrecios == 4

MaxFilas == 2

SeqsUpTo(S, n) == UNION {[1..m -> S] : m \in 0..n}

Valores == {Fin(-1, 100), Zero, Fin(1, 100), Fin(1, 50)}

\* the series of the constant-return scenario: 0.001 on every date
SerieConstante == [i \in 1..3 |-> Fin(1, 1000)]

Series == SeqsUpTo(Valores, MaxLen) \cup {SerieConstante}

Precios == {Int2F(1), Int2F(2), Int2F(3)}

PriceFrames == {[cols |-> <<"SPY">>, data |-> d] : d \in SeqsUpTo([1..1 -> Precios], MaxPrecios)}

Simbolos == {"SPY", "ACWI"}

Indice == "^GSPC"

Ordenes(S) ==
    {f \in [1..Cardinality(S) -> S] : \A x \in S : \E i \in 1..Cardinality(S) : f[i] = x}

\* the two-asset scenario: returns 0.01, -0.01, 0.02, -0.02 and 0.02, 0.01, -0.01, 0.00
EscenarioA ==
    [SPY |-> <<Fin(1, 100), Fin(-1, 100), Fin(1, 50), Fin(-1, 50)>>,
     ACWI |-> <<Fin(1, 50), Fin(1, 100), Fin(-1, 100), Zero>>]

ValoresFrame == {Fin(-1, 100), Zero, Fin(1, 50)}

\* return frames: a column per symbol plus the benchmark column, in the
\* provider's column order
ByColumn ==
    {EscenarioA} \cup
    UNION {[Simbolos -> [1..m -> ValoresFrame]] : m \in 1..MaxFilas}

ReturnFrames ==
    {[cols |-> c,
      data |-> [t \in 1..Len(f["SPY"]) |->
                  [j \in 1..Len(c) |-> IF c[j] = Indice THEN Fin(1, 100) ELSE f[c[j]][t]]]] :
        c \in Ordenes(Simbolos \cup {Indice}), f \in ByColumn}

PesoValores == {Fin(-1, 2), Fin(1, 2), One, Fin(3, 2)}

ListasSimbolos == {<<"SPY">>, <<"ACWI">>, <<"SPY", "ACWI">>, <<"ACWI", "SPY">>}

NoFrame == [cols |-> <<>>, data |-> <<>>]

\* a table of the windowed report before line 442 creates it
NoTabla == [index |-> <<>>, cols |-> <<>>, data |-> <<>>]

-----------------------------------------------------------------------------
(* SpecLib: the library functions applied to drawn inputs *)

appIdle ==
    /\ benchmark = None /\ start_date = 0 /\ sidebar_error = FALSE /\ raised = None
    /\ calls = {}
    /\ df_stocks = NoFrame /\ portfolio_returns = <<>>
    /\ pesos_volatilidad = <<>> /\ pesos_sharpe = <<>> /\ pesos_target = <<>>
    /\ success = <<>>
    /\ rendimientos_ventanas = NoTabla /\ var_ventanas = NoTabla
    /\ cvar_ventanas = NoTabla

InitLib ==
    /\ res = None
    /\ appIdle
    /\ \/ /\ pc = "serie"
          /\ serie \in Series /\ ventana \in 1..MaxVentana
          /\ precios = NoFrame /\ returns = NoFrame /\ simbolos = <<>> /\ pesos = <<>>
       \/ /\ pc = "precios"
          /\ precios \in PriceFrames
          /\ serie = <<>> /\ ventana = 1
          /\ returns = NoFrame /\ simbolos = <<>> /\ pesos = <<>>
       \/ /\ pc = "frame"
          /\ returns \in ReturnFrames
          /\ simbolos \in ListasSimbolos
          /\ pesos \in [1..Len(simbolos) -> PesoValores]
          /\ serie = <<>> /\ ventana = 1 /\ precios = NoFrame

LibCall(from, name, value) ==
    /\ pc = from
    /\ pc' = name
    /\ res' = value
    /\ UNCHANGED <<tabVars, serie, ventana, precios, inputVars, sidebar_error, raised, calls,
                   df_stocks, returns, portfolio_returns, optVars>>

LibRendimientoVentana ==
    LibCall("serie", "calcular_rendimiento_ventana", calcular_rendimiento_ventana(serie, ventana))

LibVarCvarVentana ==
    LibCall("serie", "calcular_var_cvar_ventana", calcular_var_cvar_ventana(serie, ventana))

LibVarCvar ==
    LibCall("serie", "calcular_var_cvar", calcular_var_cvar(serie, Confidence))

LibSharpe ==
    LibCall("serie", "calcular_sharpe_ratio", calcular_sharpe_ratio(serie, RiskFree))

LibSortino ==
    LibCall("serie", "calcular_sortino_ratio", calcular_sortino_ratio(serie, RiskFree, Zero))

LibMetricas ==
    LibCall("precios", "calcular_metricas", calcular_metricas(precios))

\* line 245: calcular_rendimientos_portafolio(returns[simbolos], pesos)
LibPortafolio ==
    LibCall("frame", "calcular_rendimientos_portafolio",
            calcular_rendimientos_portafolio(SelectCols(returns, simbolos), pesos))

NextLib ==
    \/ LibRendimientoVentana
    \/ LibVarCvarVentana
    \/ LibVarCvar
    \/ LibSharpe
    \/ LibSortino
    \/ LibMetricas
    \/ LibPortafolio

SpecLib == InitLib /\ [][NextLib]_vars

-----------------------------------------------------------------------------
(* SpecOpt: optimizar_portafolio applied to drawn return matrices, first without *)
(* and then with a target return, as lines 507-508 call it                       *)

ValoresOpt == {Fin(-1, 100), Zero, Fin(1, 100)}

OptFrames ==
    {[cols |-> c, data |-> d] :
        c \in {<<"SPY">>, <<"SPY", "ACWI">>},
        d \in UNION {[1..m -> [1..2 -> ValoresOpt]] : m \in 0..MaxFilas}}

InitOpt ==
    /\ pc = "opt"
    /\ \E f \in OptFrames :
          returns = [cols |-> f.cols,
                     data |-> [t \in 1..Len(f.data) |->
                                 [j \in 1..Len(f.cols) |-> f.data[t][j]]]]
    /\ serie = <<>> /\ ventana = 1 /\ precios = NoFrame
    /\ res = RNaN   \* no objective value received yet
    /\ simbolos = <<>> /\ pesos = <<>>
    /\ appIdle

\* line 507
OptLibre ==
    /\ pc = "opt"
    /\ \E runs \in SolverRuns(returns, NoTarget, RiskFree) :
          LET out == optimizar_portafolio(runs)
          IN /\ pesos_volatilidad' = out[1]
             /\ pesos_sharpe' = out[2]
             /\ success' = success \o <<runs[1].success, runs[2].success>>
    /\ pc' = "opt_libre"
    /\ UNCHANGED <<tabVars, libVars, inputVars, sidebar_error, raised, calls, df_stocks, returns,
                   portfolio_returns, pesos_target>>

\* line 508
OptTarget ==
    /\ pc = "opt_libre"
    /\ \E runs \in SolverRuns(returns, TargetReturn, RiskFree) :
          LET out == optimizar_portafolio(runs)
          IN /\ pesos_target' = out[1]
             /\ success' = Append(success, runs[1].success)
    /\ pc' = "opt_target"
    /\ UNCHANGED <<tabVars, libVars, inputVars, sidebar_error, raised, calls, df_stocks, returns,
                   portfolio_returns, pesos_volatilidad, pesos_sharpe>>

\* lines 75-82: while the target-return minimize call runs, the solver evaluates the
\* objective it was given, fun(pesos, *args) with fun = minimizar_volatilidad and
\* args = (returns,), at the starting point and at further points within the
\* bounds; pesos is the point and res the value the solver receives
EvaluarObjetivoTarget ==
    /\ pc = "opt_libre"
    /\ \E w \in Candidatos(Len(returns.cols)) :
          /\ pesos' = w
          /\ res' = Objetivo("minimizar_volatilidad", w, returns, RiskFree)
    /\ calls' = calls \cup {"minimizar_volatilidad"}
    /\ UNCHANGED <<tabVars, pc, serie, ventana, precios, simbolos, benchmark, start_date,
                   sidebar_error, raised, df_stocks, returns, portfolio_returns,
                   optVars>>

NextOpt == OptLibre \/ OptTarget \/ EvaluarObjetivoTarget

SpecOpt == InitOpt /\ [][NextOpt]_vars

-----------------------------------------------------------------------------
(* Spec: one run of the script for one request, lines 205-518 *)

MaxFilasApp == 2

\* line 212: benchmark_options (two of its five entries)
benchmark_options == [x \in {"S&P 500", "ACWI"} |-> IF x = "S&P 500" THEN "^GSPC" ELSE "ACWI"]

\* line 224: the day counts of start_date_options
DiasVentana == {30, 90, 180, 365, 3 * 365, 5 * 365, 10 * 365}

\* datetime.now() as a day number: days 30 and 4047 put the shortest window's start
\* on 2010-01-01 and on 2020-12-31, day 4048 puts it on 2021-01-01
Ahora == {30, 4047, 4048}

\* 2010-01-01 and 2020-12-31 as day numbers.  strftime('%Y-%m-%d') gives zero-padded
\* strings, which compare as the dates do.
RangoInicio == 0

RangoFin == 4017

\* the two conditions joined by and
InputRejectedAnd(s, w) ==
    Len(s) # Len(w) /\ FLt(Fin(1, 1000000), FAbs(FSub(Sum(w), One)))

\* line 236: len(simbolos) != len(pesos) or abs(sum(pesos) - 1) > 1e-6
InputRejected(s, w) ==
    Len(s) # Len(w) \/ FLt(Fin(1, 1000000), FAbs(FSub(Sum(w), One)))

\* the gate without its lower bound
RangeUpperOnly(d) == d <= RangoFin

\* line 498: '2010-01-01' <= start_date.strftime('%Y-%m-%d') <= '2020-12-31'
InRange(d) == RangoInicio <= d /\ d <= RangoFin

\* the columns yfinance returns for a list of tickers: one per distinct ticker,
\* in alphabetical order
OrdenProveedor == <<"ACWI", "SPY", "^GSPC">>

ProviderCols(tickers) ==
    LET In(c) == \E i \in 1..Len(tickers) : tickers[i] = c
    IN SelectSeq(OrdenProveedor, In)

PreciosApp == {Int2F(1), Int2F(2)}

\* the price tables the provider may return: any number of rows up to MaxFilasApp,
\* strictly positive prices, the benchmark's own column flat
ProviderFrames(tickers) ==
    LET c == ProviderCols(tickers)
        Tables(m) ==
            {[cols |-> c,
              data |-> [t \in 1..m |->
                          [j \in 1..Len(c) |->
                              IF c[j] = Indice THEN Int2F(1) ELSE f[c[j]][t]]]] :
                 f \in [Simbolos -> [1..m -> PreciosApp]]}
    IN UNION {Tables(m) : m \in 0..MaxFilasApp}

\* the USD/MXN level the FX provider returns (one level for the whole range)
FxNiveles == {Int2F(20)}

PesosListas == UNION {[1..m -> PesoValores] : m \in 1..2}

\* line 439
ventanas == <<1, 7, 30, 90, 180, 252>>

\* line 220 read backwards: the option name whose ticker is the benchmark (the five
\* tickers are distinct)
SelectedBenchmark(b) == CHOOSE x \in DOMAIN benchmark_options : benchmark_options[x] = b

\* lines 442-444: pd.DataFrame(index=['Portafolio'] + simbolos + [selected_benchmark]),
\* a table with its row labels and no column yet
TablaVacia(s, sel) ==
    LET index == <<"Portafolio">> \o s \o <<sel>>
    IN [index |-> index, cols |-> <<>>, data |-> [i \in 1..Len(index) |-> <<>>]]

\* a dict as the list of its (key, value) assignments in the order they are made:
\* d[key] is the value assigned last, and a key the dict lacks reindexes to NaN
DictGet(d, key) ==
    LET I == {i \in 1..Len(d) : d[i][1] = key}
    IN IF I = {} THEN NaN ELSE d[CHOOSE i \in I : \A j \in I : j <= i][2]

\* tabla[col] = pd.Series(d): the series is aligned on the table's row labels, so
\* every row gets the value stored under its own label
SetColumn(tabla, col, d) ==
    [index |-> tabla.index,
     cols |-> Append(tabla.cols, col),
     data |-> [i \in 1..Len(tabla.index) |->
                 Append(tabla.data[i], DictGet(d, tabla.index[i]))]]

\* the windowed function behind each table
MetricaVentana(metrica, r, window) ==
    IF metrica = "rendimiento" THEN calcular_rendimiento_ventana(r, window)
    ELSE IF metrica = "var" THEN calcular_var_cvar_ventana(r, window)[1]
    ELSE calcular_var_cvar_ventana(r, window)[2]

\* lines 448-452 and 455-472: the dict of one window, filled for the portfolio, then
\* for each symbol, then for the benchmark under its option name
DictVentana(metrica, port, rets, s, b, window) ==
    <<<<"Portafolio", MetricaVentana(metrica, port, window)>>>>
    \o [i \in 1..Len(s) |-> <<s[i], MetricaVentana(metrica, Column(rets, s[i]), window)>>]
    \o <<<<SelectedBenchmark(b), MetricaVentana(metrica, Column(rets, b), window)>>>>

\* lines 446-475: the table after the loop has run over the first k windows; the
\* column f'{ventana}d' is labelled here by its window
RECURSIVE TablaVentanas(_, _, _, _, _, _)
TablaVentanas(metrica, port, rets, s, b, k) ==
    IF k = 0 THEN TablaVacia(s, SelectedBenchmark(b))
    ELSE SetColumn(TablaVentanas(metrica, port, rets, s, b, k - 1), ventanas[k],
                   DictVentana(metrica, port, rets, s, b, ventanas[k]))

Init ==
    /\ pc = "inicio"
    /\ simbolos \in ListasSimbolos
    /\ pesos \in PesosListas
    /\ \E sel \in DOMAIN benchmark_options : benchmark = benchmark_options[sel]
    /\ \E now \in Ahora, dias \in DiasVentana : start_date = now - dias
    /\ sidebar_error = FALSE /\ raised = None /\ calls = {}
    /\ df_stocks = NoFrame /\ returns = NoFrame /\ portfolio_returns = <<>>
    /\ pesos_volatilidad = <<>> /\ pesos_sharpe = <<>> /\ pesos_target = <<>>
    /\ success = <<>>
    /\ rendimientos_ventanas = NoTabla /\ var_ventanas = NoTabla
    /\ cvar_ventanas = NoTabla
    /\ serie = <<>> /\ ventana = 1 /\ precios = NoFrame /\ res = None

\* lines 236-238: the input check; on rejection the script shows the error and ends
Validar ==
    /\ pc = "inicio"
    /\ IF InputRejected(simbolos, pesos)
       THEN sidebar_error' = TRUE /\ pc' = "fin"
       ELSE sidebar_error' = FALSE /\ pc' = "obtener"
    /\ UNCHANGED <<tabVars, libVars, inputVars, raised, calls, df_stocks, returns,
                   portfolio_returns, optVars>>

\* lines 240-241
ObtenerDatos ==
    /\ pc = "obtener"
    /\ LET all_symbols == Append(simbolos, benchmark)
       IN df_stocks' \in ProviderFrames(all_symbols)
    /\ calls' = calls \cup {"obtener_datos_acciones"}
    /\ pc' = "metricas"
    /\ UNCHANGED <<tabVars, libVars, inputVars, sidebar_error, raised, returns,
                   portfolio_returns, optVars>>

\* line 242
CalcularMetricas ==
    /\ pc = "metricas"
    /\ LET m == calcular_metricas(df_stocks)
       IN IF m.raised # None
          THEN raised' = m.raised /\ pc' = "fin" /\ UNCHANGED returns
          ELSE returns' = m.returns /\ pc' = "portafolio" /\ UNCHANGED raised
    /\ calls' = calls \cup {"calcular_metricas"}
    /\ UNCHANGED <<tabVars, libVars, inputVars, sidebar_error, df_stocks, portfolio_returns, optVars>>

\* line 245
RendimientosPortafolio ==
    /\ pc = "portafolio"
    /\ portfolio_returns' =
          calcular_rendimientos_portafolio(SelectCols(returns, simbolos), pesos)
    /\ calls' = calls \cup {"calcular_rendimientos_portafolio"}
    /\ pc' = "tab1"
    /\ UNCHANGED <<tabVars, libVars, inputVars, sidebar_error, raised, df_stocks, returns, optVars>>

\* lines 301-376: the metrics of the selected asset; calcular_ultimo_drawdown reads
\* drawdown.iloc[-1], which raises IndexError when there is no return row
Tab1 ==
    /\ pc = "tab1"
    /\ IF Len(returns.data) = 0
       THEN raised' = "IndexError" /\ pc' = "fin"
       ELSE UNCHANGED raised /\ pc' = "tab2"
    /\ calls' = calls \cup {"calcular_var_cvar", "calcular_ultimo_drawdown"}
    /\ UNCHANGED <<tabVars, libVars, inputVars, sidebar_error, df_stocks, returns,
                   portfolio_returns, optVars>>

\* lines 379-493: the metrics of the portfolio
Tab2 ==
    /\ pc = "tab2"
    /\ rendimientos_ventanas' =
          TablaVentanas("rendimiento", portfolio_returns, returns, simbolos, benchmark,
                        Len(ventanas))
    /\ var_ventanas' =
          TablaVentanas("var", portfolio_returns, returns, simbolos, benchmark,
                        Len(ventanas))
    /\ cvar_ventanas' =
          TablaVentanas("cvar", portfolio_returns, returns, simbolos, benchmark,
                        Len(ventanas))
    /\ calls' = calls \cup {"calcular_sharpe_ratio", "calcular_sortino_ratio",
                             "calcular_beta", "calcular_rendimiento_ventana",
                             "calcular_var_cvar_ventana"}
    /\ pc' = "tab3"
    /\ UNCHANGED <<libVars, inputVars, sidebar_error, raised, df_stocks, returns,
                   portfolio_returns, optVars>>

\* line 500: returns[simbolos]['2010-01-01':'2020-12-31']; the t-th return row is
\* dated t days after start_date
Returns2010_2020(rets, start) ==
    LET sel == SelectCols(rets, simbolos)
        Keep == {t \in 1..Len(sel.data) : InRange(start + t)}
        idx == SelectSeq([t \in 1..Len(sel.data) |-> t], LAMBDA t : t \in Keep)
    IN [cols |-> sel.cols, data |-> [i \in 1..Len(idx) |-> sel.data[idx[i]]]]

\* line 504: returns_2010_2020.mul(fx_usd_mxn, axis=0)
MulFx(rets, fx) ==
    [cols |-> rets.cols,
     data |-> [t \in 1..Len(rets.data) |->
                 [j \in 1..Len(rets.cols) |-> FMul(rets.data[t][j], fx)]]]

\* lines 496-518
Tab3 ==
    /\ pc = "tab3"
    /\ IF InRange(start_date)
       THEN \E fx \in FxNiveles :
              LET returns_2010_2020_mxn == MulFx(Returns2010_2020(returns, start_date), fx)
              IN \E libre \in SolverRuns(returns_2010_2020_mxn, NoTarget, RiskFree),
                    target \in SolverRuns(returns_2010_2020_mxn, TargetReturn, RiskFree) :
                    /\ pesos_volatilidad' = optimizar_portafolio(libre)[1]
                    /\ pesos_sharpe' = optimizar_portafolio(libre)[2]
                    /\ pesos_target' = optimizar_portafolio(target)[1]
                    /\ success' = <<libre[1].success, libre[2].success, target[1].success>>
                    /\ calls' = calls \cup {"optimizar_portafolio"}
       ELSE UNCHANGED <<optVars, calls>>
    /\ pc' = "fin"
    /\ UNCHANGED <<tabVars, libVars, inputVars, sidebar_error, raised, df_stocks, returns,
                   portfolio_returns>>

Next ==
    \/ Validar
    \/ ObtenerDatos
    \/ CalcularMetricas
    \/ RendimientosPortafolio
    \/ Tab1
    \/ Tab2
    \/ Tab3

Spec == Init /\ [][Next]_vars

-----------------------------------------------------------------------------
(* SpecTab: the script at the entry of tab2 (line 379) after a fetch of up to    *)
(* MaxFilasTab return rows, and the portfolio tab run from there                 *)

MaxFilasTab == 8

\* the day-over-day price factors of SPY
FactoresTab == {Fin(1, 2), Int2F(2)}

\* the price tables of the fetch: SPY follows any path of halvings and doublings,
\* ACWI alternates between 2 and 1, the index is flat
TabFrames(tickers) ==
    LET c == ProviderCols(tickers)
        Precio(name, f, t) ==
            IF name = "SPY" THEN Prod([i \in 1..(t - 1) |-> f[i]])
            ELSE IF name = "ACWI" THEN (IF t % 2 = 1 THEN Int2F(2) ELSE Int2F(1))
            ELSE Int2F(1)
        Tables(m) ==
            {[cols |-> c,
              data |-> [t \in 1..(m + 1) |-> [j \in 1..Len(c) |-> Precio(c[j], f, t)]]] :
                 f \in [1..m -> FactoresTab]}
    IN UNION {Tables(m) : m \in 1..MaxFilasTab}

InitTab ==
    /\ pc = "tab2"
    /\ simbolos \in ListasSimbolos
    /\ pesos \in {w \in PesosListas : ~InputRejected(simbolos, w)}
    /\ \E sel \in DOMAIN benchmark_options : benchmark = benchmark_options[sel]
    /\ start_date = RangoFin + 1
    /\ df_stocks \in TabFrames(Append(simbolos, benchmark))
    /\ returns = calcular_metricas(df_stocks).returns
    /\ portfolio_returns =
          calcular_rendimientos_portafolio(SelectCols(returns, simbolos), pesos)
    /\ calls = {"obtener_datos_acciones", "calcular_metricas",
                "calcular_rendimientos_portafolio", "calcular_var_cvar",
                "calcular_ultimo_drawdown"}
    /\ sidebar_error = FALSE /\ raised = None
    /\ pesos_volatilidad = <<>> /\ pesos_sharpe = <<>> /\ pesos_target = <<>>
    /\ success = <<>>
    /\ rendimientos_ventanas = NoTabla /\ var_ventanas = NoTabla
    /\ cvar_ventanas = NoTabla
    /\ serie = <<>> /\ ventana = 1 /\ precios = NoFrame /\ res = None

NextTab == Tab2

SpecTab == InitTab /\ [][NextTab]_vars

-----------------------------------------------------------------------------
(* Properties of the library functions, checked under SpecLib *)

Trailing(s, w) == SubSeq(s, Len(s) - w + 1, Len(s))

RECURSIVE CompoundFrom(_, _)
CompoundFrom(s, i) ==
    IF i > Len(s) THEN One ELSE FMul(FAdd(One, s[i]), CompoundFrom(s, i + 1))

\* C3: for a window w >= 1, a series shorter than w gives NaN (and (NaN, NaN)); a
\* series of at least w observations gives the compound return of exactly its last
\* w observations, and calcular_var_cvar of exactly its last w observations.
C3_VentanaTrailing ==
    /\ pc = "calcular_rendimiento_ventana" =>
          IF Len(serie) < ventana THEN IsNaN(res)
          ELSE res = FSub(CompoundFrom(serie, Len(serie) - ventana + 1), One)
    /\ pc = "calcular_var_cvar_ventana" =>
          IF Len(serie) < ventana THEN res = <<NaN, NaN>>
          ELSE res = calcular_var_cvar(Trailing(serie, ventana), Confidence)

C3_Witness ==
    /\ pc = "calcular_rendimiento_ventana"
    /\ ventana >= 2 /\ Len(serie) > ventana
    /\ res # FSub(CompoundFrom(serie, 1), One)

IsConstantPositive(s) ==
    /\ Len(s) >= 1
    /\ \A i \in 1..Len(s) : s[i] = s[1] /\ FLt(Zero, s[i])

\* C7: on a series of identical positive values calcular_sharpe_ratio and
\* calcular_sortino_ratio both return NaN.
C7_ConstantSeriesNaN ==
    (pc \in {"calcular_sharpe_ratio", "calcular_sortino_ratio"} /\ IsConstantPositive(serie))
        => res.k = "nan"

Smallest(s, skip) ==
    LET i == CHOOSE i \in (1..Len(s)) \ skip :
                 \A j \in (1..Len(s)) \ skip : FLe(s[i], s[j])
    IN i

RECURSIVE SumWhere(_, _, _)
SumWhere(s, I, i) ==
    IF i > Len(s) THEN Zero
    ELSE FAdd(IF i \in I THEN s[i] ELSE Zero, SumWhere(s, I, i + 1))

\* C8: on a non-empty series (of at most 21 observations, where the 5% quantile lies
\* between the two smallest observations) VaR = min + (n-1)/20 * (second - min),
\* some observation is <= VaR, CVaR is the mean of the observations <= VaR, and
\* CVaR <= VaR.
C8_VarCvar ==
    (pc = "calcular_var_cvar" /\ Len(serie) >= 1 /\ Len(serie) <= 21) =>
        LET n == Len(serie)
            i1 == Smallest(serie, {})
            lo == serie[i1]
            second == IF n = 1 THEN lo ELSE serie[Smallest(serie, {i1})]
            VaR == res[1]
            CVaR == res[2]
            tail == {i \in 1..n : FLe(serie[i], VaR)}
        IN /\ VaR = FAdd(lo, FMul(Fin(n - 1, 20), FSub(second, lo)))
           /\ tail # {}
           /\ CVaR = FDiv(SumWhere(serie, tail, 1), Int2F(Cardinality(tail)))
           /\ FLe(CVaR, VaR)

C8_Witness ==
    /\ pc = "calcular_var_cvar"
    /\ Len(serie) = 3
    /\ FLt(res[2], res[1])
    /\ \E i \in 1..3 : FLt(res[1], serie[i])

\* C9: for a price series of length >= 2 calcular_metricas raises nothing, returns
\* and cumulative returns have length len(prices) - 1, and price[0] * (1 +
\* cumulative[k]) is the price at the date of the k-th return.
C9_RoundTrip ==
    (pc = "calcular_metricas" /\ Len(precios.data) >= 2) =>
        /\ res.raised = None
        /\ Len(res.returns.data) = Len(precios.data) - 1
        /\ Len(res.cumulative_returns.data) = Len(precios.data) - 1
        /\ \A k \in 1..(Len(precios.data) - 1) :
              FMul(precios.data[1][1], FAdd(One, res.cumulative_returns.data[k][1]))
                  = precios.data[k + 1][1]

C9_Witness ==
    /\ pc = "calcular_metricas"
    /\ Len(precios.data) = 4
    /\ precios.data[1][1] # precios.data[2][1]
    /\ precios.data[2][1] # precios.data[3][1]
    /\ precios.data[4][1] # precios.data[1][1]

IsEscenarioA ==
    /\ Len(returns.data) = 4
    /\ \A c \in Simbolos : Column(returns, c) = EscenarioA[c]

\* C6: the portfolio return on each date is the sum over i of pesos[i] times the
\* return of the i-th symbol of the caller's list on that date; in the two-asset
\* scenario with weights 0.5/0.5 it is 0.015, 0.0, 0.005, -0.01.
C6_WeightedSum ==
    pc = "calcular_rendimientos_portafolio" =>
        /\ Len(res) = Len(returns.data)
        /\ \A t \in 1..Len(returns.data) :
              res[t] = Sum([i \in 1..Len(simbolos) |->
                              FMul(pesos[i], Column(returns, simbolos[i])[t])])
        /\ (IsEscenarioA /\ pesos = <<Fin(1, 2), Fin(1, 2)>>) =>
              res = <<Fin(3, 200), Zero, Fin(1, 200), Fin(-1, 100)>>

C6_Witness ==
    /\ pc = "calcular_rendimientos_portafolio"
    /\ IsEscenarioA
    /\ pesos = <<Fin(1, 2), Fin(1, 2)>>
    /\ returns.cols[1] = Indice
    /\ simbolos[1] # returns.cols[2]

-----------------------------------------------------------------------------
(* Properties of the optimizer, checked under SpecOpt *)

WeightsValid(w) ==
    /\ \A i \in 1..Len(w) : FLe(Zero, w[i]) /\ FLe(w[i], One)
    /\ FLe(FAbs(FSub(Sum(w), One)), Fin(1, 1000000))

\* C1: every weight vector optimizar_portafolio returns, in each of the three modes
\* and whether or not the solver converged, has its entries in [0,1] and sums to 1
\* within 1e-6.
C1_WeightsValid ==
    /\ pc \in {"opt_libre", "opt_target"} =>
          WeightsValid(pesos_volatilidad) /\ WeightsValid(pesos_sharpe)
    /\ pc = "opt_target" => WeightsValid(pesos_target)

\* the tolerance granted to the return floor: one point of annualized return
TargetTolerance == Fin(1, 100)

\* C2: after a call with target_return, the returned weights give an annualized
\* return >= target_return - tolerance, or the call signalled infeasibility.  Stated
\* for the return matrices of two or more rows, where the volatility is defined at
\* the starting point.
C2_TargetMetOrSignalled ==
    (pc = "opt_target" /\ Len(returns.data) >= 2) =>
        \/ RendimientoAnualizadoGe(
               calcular_rendimientos_portafolio(returns, pesos_target),
               FSub(TargetReturn, TargetTolerance))
        \/ raised # None

\* C11: in target-return mode the objective value the solver receives at a weight
\* vector is +infinity when the portfolio's annualized return is below
\* target_return, and the portfolio's annualized volatility otherwise; it is never
\* a finite value at a weight vector below the return floor.  Stated for the return
\* matrices of two or more rows, where the volatility is defined.
C11_TargetObjective ==
    (/\ pc \in {"opt_libre", "opt_target"}
     /\ "minimizar_volatilidad" \in calls
     /\ Len(returns.data) >= 2) =>
        LET port == calcular_rendimientos_portafolio(returns, pesos)
        IN IF FLt(Mean(port), DailyFloor(TargetReturn))
           THEN res = RInf(1)
           ELSE res = calcular_volatilidad_anualizada(port)

-----------------------------------------------------------------------------
(* Properties of the script's run, checked under Spec *)

Downstream ==
    {"obtener_datos_acciones", "calcular_metricas", "calcular_rendimientos_portafolio",
     "calcular_var_cvar", "calcular_ultimo_drawdown", "calcular_sharpe_ratio",
     "calcular_sortino_ratio", "calcular_beta", "calcular_rendimiento_ventana",
     "calcular_var_cvar_ventana", "optimizar_portafolio"}

NothingComputed ==
    /\ calls \cap Downstream = {}
    /\ df_stocks = NoFrame /\ returns = NoFrame /\ portfolio_returns = <<>>
    /\ pesos_volatilidad = <<>> /\ pesos_sharpe = <<>> /\ pesos_target = <<>>

WeightsMismatch ==
    \/ Len(simbolos) # Len(pesos)
    \/ FLt(Fin(1, 1000000), FSub(Sum(pesos), One))
    \/ FLt(Fin(1, 1000000), FSub(One, Sum(pesos)))

\* C4: when the number of weights differs from the number of symbols, or the
\* weights do not sum to 1 within 1e-6, the error is shown as soon as the input is
\* checked and nothing downstream is ever computed.
C4_RejectedInputStops ==
    WeightsMismatch =>
        /\ NothingComputed
        /\ pc \in {"inicio", "fin"}
        /\ pc = "fin" => sidebar_error /\ raised = None

C4_Witness ==
    /\ pc = "fin" /\ sidebar_error
    /\ Len(simbolos) = Len(pesos)
    /\ Len(pesos) = 2

WeightOutOfRange == \E i \in 1..Len(pesos) : FLt(pesos[i], Zero) \/ FLt(One, pesos[i])

\* C5: when some user weight lies outside [0,1] the input is rejected with an
\* error before any portfolio return or metric is computed, even when the
\* weights sum to 1 and their count matches.
C5_OutOfRangeWeightRejected ==
    WeightOutOfRange =>
        /\ NothingComputed
        /\ pc # "inicio" => sidebar_error \/ raised # None

\* the request passed input validation: the weights were accepted and the price
\* table has the two rows a return needs
PassedValidation == ~InputRejected(simbolos, pesos) /\ Len(df_stocks.data) >= 2

Entidades == {"Portafolio"} \cup {simbolos[i] : i \in 1..Len(simbolos)}
                 \cup {SelectedBenchmark(benchmark)}

\* the return series of an entity
SerieEntidad(e) ==
    IF e = "Portafolio" THEN portfolio_returns
    ELSE IF e = SelectedBenchmark(benchmark) THEN Column(returns, benchmark)
    ELSE Column(returns, e)

\* the rows of a table that carry the label e
FilasDe(tabla, e) == {i \in 1..Len(tabla.index) : tabla.index[i] = e}

\* every cell of the table is the cell of an entity and a window and holds NaN
\* exactly when the entity's series is shorter than the window, else its own value
CeldasCorrectas(tabla, metrica) ==
    /\ tabla.cols = ventanas
    /\ \A i \in 1..Len(tabla.index) :
          /\ tabla.index[i] \in Entidades
          /\ Len(tabla.data[i]) = Len(ventanas)
          /\ \A j \in 1..Len(ventanas) :
                LET r == SerieEntidad(tabla.index[i])
                    celda == tabla.data[i][j]
                IN /\ IsNaN(celda) <=> Len(r) < ventanas[j]
                   /\ Len(r) >= ventanas[j] =>
                         celda = MetricaVentana(metrica, Trailing(r, ventanas[j]),
                                                ventanas[j])

\* C12: after the windowed loop each of the three tables holds exactly one cell for
\* every (entity, window) with the entity among the portfolio, the symbols and the
\* benchmark and the window in {1, 7, 30, 90, 180, 252}; the cell is NaN exactly when
\* the entity's series is shorter than the window and is otherwise the entity's own
\* windowed value, also when the benchmark's name is one of the symbols.
C12_TablasVentanas ==
    (pc \in {"tab3", "fin"} /\ "calcular_var_cvar_ventana" \in calls) =>
        /\ CeldasCorrectas(rendimientos_ventanas, "rendimiento")
        /\ CeldasCorrectas(var_ventanas, "var")
        /\ CeldasCorrectas(cvar_ventanas, "cvar")
        /\ \A e \in Entidades :
              /\ Cardinality(FilasDe(rendimientos_ventanas, e)) = 1
              /\ Cardinality(FilasDe(var_ventanas, e)) = 1
              /\ Cardinality(FilasDe(cvar_ventanas, e)) = 1

====
